---- MODULE Spec2Model ----
(***************************************************************************)
(* Model of app.py: the Flask dashboard for the Bandung waste simulation.  *)
(* One request handler, index(), loads the CSV, filters it by the query    *)
(* parameters year_from / year_to, falls back to the whole dataset when    *)
(* the filter leaves nothing, and hands the view to build_summary,         *)
(* build_insights, generate_charts and the table preview.                  *)
(*                                                                         *)
(* A DataFrame is a sequence of rows in positional order; every row keeps  *)
(* its index label (idx) as pandas does through sort_values and boolean    *)
(* indexing.  A str is a sequence of one-character strings; the optional   *)
(* query parameter is a record [some, val] (some = FALSE is Python None).  *)
(* A raised exception is a record field `raised` naming the exception.     *)
(***************************************************************************)
EXTENDS Integers, Sequences, FiniteSets, TLC

VARIABLES csv, args, df, df_view, year_from, year_to, status, context, calls

vars == <<csv, args, df, df_view, year_from, year_to, status, context, calls>>

\* ------------------------------------------------------------------ bounds
MaxRows == 3
MaxStrLen == 1
MaxCalls == 2

\* ---------------------------------------------------------- input alphabet
Years == {1, 2}
Months == {"Januari", "MARET"}
Amounts == {5, 7}
\* "1", "2": ASCII decimal digits.  "+": a sign, accepted by int() but not a
\* digit.  "²" (U+00B2): str.isdigit() is True for it, int() rejects it.
Chars == {"1", "2", "+", "²"}

\* ------------------------------------------------------------ Python str
None == [some |-> FALSE, val |-> <<>>]
Str(s) == [some |-> TRUE, val |-> s]

StrsOfLen(n) == [1..n -> Chars]
Strs(n) == UNION {StrsOfLen(k) : k \in 0..n}
QueryArgs(n) == {None} \cup {Str(s) : s \in Strs(n)}

DigitChars == {"1", "2", "²"}
DecimalChars == {"1", "2"}

\* str.isdigit(): every character is a digit and there is at least one
isdigit(s) == Len(s) > 0 /\ \A i \in 1..Len(s) : s[i] \in DigitChars

DigitVal(c) == IF c = "1" THEN 1 ELSE 2

RECURSIVE DecimalValue(_)
DecimalValue(s) ==
    IF Len(s) = 0 THEN 0
    ELSE 10 * DecimalValue(SubSeq(s, 1, Len(s) - 1)) + DigitVal(s[Len(s)])

\* int(s): an optional sign followed by one or more decimal digits;
\* anything else raises ValueError
PyIntBody(s) == IF Len(s) > 0 /\ s[1] = "+" THEN Tail(s) ELSE s
PyIntOk(s) ==
    LET b == PyIntBody(s)
    IN  Len(b) > 0 /\ \A i \in 1..Len(b) : b[i] \in DecimalChars
int(s) ==
    IF PyIntOk(s) THEN [raised |-> "", value |-> DecimalValue(PyIntBody(s))]
    ELSE [raised |-> "ValueError", value |-> 0]

\* Python truthiness of an Optional[str]
Truthy(a) == a.some /\ a.val # <<>>

\* `x or ""`
OrEmpty(a) == IF Truthy(a) THEN a.val ELSE <<>>

\* ------------------------------------------------------------- the CSV
\* The columns the program only passes through carry a value that names the
\* file line, so that a value read from the wrong row is seen.
RawRows == [tahun : Years, bulan : Months, jumlah_sampah : Amounts]

CsvRow(raw, line) ==
    [tahun |-> raw.tahun, bulan |-> raw.bulan,
     jumlah_sampah |-> raw.jumlah_sampah,
     penanganan_estimasi |-> 100 + line,
     sisa_sampah |-> 200 + line,
     akumulasi |-> 300 + line,
     skn_BAU |-> 900 + 10 * line,
     skn_70 |-> 700 + line,
     skn_80 |-> 600 + line]

\* files of one row per month (any line order), as the data model requires
UniquePeriods(f) ==
    \A i, j \in DOMAIN f :
        i # j => (f[i].tahun # f[j].tahun \/ f[i].bulan # f[j].bulan)

CsvFiles ==
    UNION { { [i \in 1..n |-> CsvRow(f[i], i)] :
                f \in {g \in [1..n -> RawRows] : UniquePeriods(g)} } :
            n \in 0..MaxRows }

\* ---------------------------------------------------------- load_data
Upper(name) == IF name = "Januari" THEN "JANUARI" ELSE "MARET"
Title(name) == IF name = "Januari" THEN "Januari" ELSE "Maret"

bulan_map == [m \in {"JANUARI", "MARET"} |-> IF m = "JANUARI" THEN 1 ELSE 3]

\* pd.to_datetime("<tahun>-<bulan_num>-01"): the first of the month, as the
\* number of months since year 0
to_datetime(tahun, bulan_num) == 12 * tahun + (bulan_num - 1)

\* read_csv gives the rows a RangeIndex (0-based); the else branch of
\* load_data adds the columns bulan_num and tanggal
WithTanggal(row, line) ==
    [idx |-> line - 1,
     tahun |-> row.tahun, bulan |-> row.bulan,
     jumlah_sampah |-> row.jumlah_sampah,
     penanganan_estimasi |-> row.penanganan_estimasi,
     sisa_sampah |-> row.sisa_sampah,
     akumulasi |-> row.akumulasi,
     skn_BAU |-> row.skn_BAU, skn_70 |-> row.skn_70, skn_80 |-> row.skn_80,
     bulan_num |-> bulan_map[Upper(row.bulan)],
     tanggal |-> to_datetime(row.tahun, bulan_map[Upper(row.bulan)])]

RECURSIVE InsertByTanggal(_, _)
InsertByTanggal(sorted, row) ==
    IF Len(sorted) = 0 THEN <<row>>
    ELSE IF row.tanggal < sorted[1].tanggal THEN <<row>> \o sorted
    ELSE <<sorted[1]>> \o InsertByTanggal(Tail(sorted), row)

\* (variant: the frame is returned in file order)
NoSort(frame) == frame

\* DataFrame.sort_values("tanggal"): ascending, index labels kept
RECURSIVE sort_values(_)
sort_values(frame) ==
    IF Len(frame) = 0 THEN <<>>
    ELSE InsertByTanggal(sort_values(SubSeq(frame, 1, Len(frame) - 1)),
                         frame[Len(frame)])

load_data(file) ==
    sort_values([i \in 1..Len(file) |-> WithTanggal(file[i], i)])


\* ------------------------------------------------------ pandas helpers
Column(frame, col) == [i \in 1..Len(frame) |-> frame[i][col]]

\* (variant: every value is added twice)
RECURSIVE sum_twice(_)
sum_twice(series) ==
    IF Len(series) = 0 THEN 0 ELSE 2 * series[1] + sum_twice(Tail(series))

\* Series.sum(): 0 for an empty Series
RECURSIVE sum(_)
sum(series) ==
    IF Len(series) = 0 THEN 0 ELSE series[1] + sum(Tail(series))

\* Series.mean() of a non-empty Series, kept exact as sum over count
mean(series) == [num |-> sum(series), den |-> Len(series)]

SeqMax(series) ==
    CHOOSE v \in {series[i] : i \in DOMAIN series} :
        \A i \in DOMAIN series : series[i] <= v
SeqMin(series) ==
    CHOOSE v \in {series[i] : i \in DOMAIN series} :
        \A i \in DOMAIN series : series[i] >= v

FirstPos(series, v) ==
    CHOOSE i \in DOMAIN series :
        series[i] = v /\ \A j \in 1..(i - 1) : series[j] # v

\* Series.idxmax() / idxmin(): the index LABEL of the first position that
\* holds the maximum / minimum
idxmax(frame, col) == frame[FirstPos(Column(frame, col), SeqMax(Column(frame, col)))].idx
idxmin(frame, col) == frame[FirstPos(Column(frame, col), SeqMin(Column(frame, col)))].idx

\* DataFrame.loc[label]: the row carrying that label
loc(frame, label) == frame[CHOOSE i \in DOMAIN frame : frame[i].idx = label]

\* (variant: iloc[0])
iloc_first(series) == series[1]

\* Series.iloc[-1]: the positionally last value
iloc_last(series) == series[Len(series)]

\* DataFrame.tail(n)
tail(frame, n) ==
    IF Len(frame) <= n THEN frame
    ELSE SubSeq(frame, Len(frame) - n + 1, Len(frame))

\* DataFrame.empty
empty(frame) == Len(frame) = 0

\* sorted(Series.unique())
RECURSIVE SortedSeq(_)
SortedSeq(S) ==
    IF S = {} THEN <<>>
    ELSE LET m == CHOOSE x \in S : \A y \in S : x <= y
         IN  <<m>> \o SortedSeq(S \ {m})

\* ------------------------------------------------------- build_summary
\* df["sisa_sampah"].iloc[-1] raises IndexError on an empty frame, after
\* sum() and mean() have been computed
build_summary(frame) ==
    IF empty(frame) THEN [raised |-> "IndexError", result |-> <<>>]
    ELSE [raised |-> "",
          result |-> << [periode |-> <<SeqMin(Column(frame, "tahun")),
                                       SeqMax(Column(frame, "tahun"))>>,
                         total_sampah_value |-> sum(Column(frame, "jumlah_sampah")),
                         rata_penanganan_value |-> mean(Column(frame, "penanganan_estimasi")),
                         sisa_akhir_value |-> iloc_last(Column(frame, "sisa_sampah")),
                         akumulasi_akhir_value |-> iloc_last(Column(frame, "akumulasi"))] >>]

\* ------------------------------------------------------ build_insights
\* idxmax() of an empty Series raises ValueError
build_insights(frame) ==
    IF empty(frame) THEN [raised |-> "ValueError", result |-> <<>>]
    ELSE LET highest == loc(frame, idxmax(frame, "jumlah_sampah"))
             lowest == loc(frame, idxmin(frame, "jumlah_sampah"))
             best_intervention == iloc_last(Column(frame, "skn_80"))
             bau_end == iloc_last(Column(frame, "skn_BAU"))
             delta == bau_end - best_intervention
         IN  [raised |-> "",
              result |-> << <<
                 [text |-> "Puncak timbulan",
                  bulan |-> Title(highest.bulan), tahun |-> highest.tahun,
                  ton |-> highest.jumlah_sampah],
                 [text |-> "Periode terendah",
                  bulan |-> Title(lowest.bulan), tahun |-> lowest.tahun,
                  ton |-> lowest.jumlah_sampah],
                 [text |-> "Skenario 80%",
                  bulan |-> "", tahun |-> 0, ton |-> delta] >> >>]

\* ----------------------------------------------------- generate_charts
\* (variant: the x axis is the index label, not the period)
TraceByIndex(frame, name, ycol) ==
    [name |-> name, x |-> Column(frame, "idx"), y |-> Column(frame, ycol)]

\* a trace of a figure: one (x, y) point per row of the frame, in its order
Trace(frame, name, ycol) ==
    [name |-> name, x |-> Column(frame, "tanggal"), y |-> Column(frame, ycol)]

render_plotly(traces) == [div |-> traces]

generate_charts(frame) ==
    [tren |-> render_plotly(<<Trace(frame, "Tren", "jumlah_sampah")>>),
     akumulasi |-> render_plotly(<<Trace(frame, "Akumulasi", "akumulasi")>>),
     skenario |-> render_plotly(<<Trace(frame, "BAU (60%)", "skn_BAU"),
                                  Trace(frame, "Skenario 70%", "skn_70"),
                                  Trace(frame, "Skenario 80%", "skn_80")>>)]


\* ------------------------------------------------------------- index()
\* The locals of index(): l.df, l.df_view, l.year_from, l.year_to, and
\* l.raised, the exception that ended the handler ("" while none has).
TABLE_ROWS == 24

\* df_view[df_view["tahun"] >= n]: a new frame of the rows that pass, in
\* their order and with their labels
RowsFrom(frame, n) == LET Keep(r) == r.tahun >= n IN SelectSeq(frame, Keep)
\* (variant: an exclusive upper end)
RowsBefore(frame, n) == LET Keep(r) == r.tahun < n IN SelectSeq(frame, Keep)
RowsTo(frame, n) == LET Keep(r) == r.tahun <= n IN SelectSeq(frame, Keep)

\* df.copy()
copy(frame) == frame

\* (variant: the rows are dropped from df itself, and the view is df)
FilterFromInPlace(l) ==
    IF Truthy(l.year_from) /\ isdigit(l.year_from.val)
    THEN LET n == int(l.year_from.val)
         IN  IF n.raised # "" THEN [l EXCEPT !.raised = n.raised]
             ELSE [l EXCEPT !.df = RowsFrom(l.df_view, n.value),
                            !.df_view = RowsFrom(l.df_view, n.value)]
    ELSE l

\* if year_from and year_from.isdigit(): df_view = df_view[tahun >= int(year_from)]
FilterFrom(l) ==
    IF Truthy(l.year_from) /\ isdigit(l.year_from.val)
    THEN LET n == int(l.year_from.val)
         IN  IF n.raised # "" THEN [l EXCEPT !.raised = n.raised]
             ELSE [l EXCEPT !.df_view = RowsFrom(l.df_view, n.value)]
    ELSE l

\* if year_to and year_to.isdigit(): df_view = df_view[tahun <= int(year_to)]
FilterTo(l) ==
    IF Truthy(l.year_to) /\ isdigit(l.year_to.val)
    THEN LET n == int(l.year_to.val)
         IN  IF n.raised # "" THEN [l EXCEPT !.raised = n.raised]
             ELSE [l EXCEPT !.df_view = RowsTo(l.df_view, n.value)]
    ELSE l

\* (variant: no fallback)
NoFallback(l) == l

\* (variant: the fallback forgets to reset year_to)
FallbackKeepsYearTo(l) ==
    IF empty(l.df_view)
    THEN [l EXCEPT !.df_view = copy(l.df), !.year_from = Str(<<>>)]
    ELSE l

\* if df_view.empty: df_view = df.copy(); year_from = ""; year_to = ""
Fallback(l) ==
    IF empty(l.df_view)
    THEN [l EXCEPT !.df_view = copy(l.df),
                   !.year_from = Str(<<>>), !.year_to = Str(<<>>)]
    ELSE l

\* lines 140-149: the range filter with its fallback, on the dataset `frame`
RangeFilter(frame, a_from, a_to) ==
    LET l0 == [df |-> frame, df_view |-> copy(frame),
               year_from |-> a_from, year_to |-> a_to, raised |-> ""]
        l1 == FilterFrom(l0)
        l2 == IF l1.raised # "" THEN l1 ELSE FilterTo(l1)
    IN  IF l2.raised # "" THEN l2 ELSE Fallback(l2)

\* DataFrame.to_html(index=False): the rows without their index label
to_html(frame) ==
    [i \in 1..Len(frame) |->
        [c \in (DOMAIN frame[i]) \ {"idx"} |-> frame[i][c]]]

\* The whole handler: its locals when it returns or raises, and the template
\* context when it returns.
index(file, a_from, a_to) ==
    LET data == load_data(file)
        years == SortedSeq({data[i].tahun : i \in DOMAIN data})
        l == RangeFilter(data, a_from, a_to)
        summary == build_summary(l.df_view)
        insights == build_insights(l.df_view)
        charts == generate_charts(l.df_view)
        raised == IF l.raised # "" THEN l.raised
                  ELSE IF summary.raised # "" THEN summary.raised
                  ELSE insights.raised
    IN  [locals |-> l,
         raised |-> raised,
         context |->
            IF raised # "" THEN <<>>
            ELSE << [table |-> to_html(tail(l.df_view, TABLE_ROWS)),
                     tren |-> charts.tren,
                     akumulasi |-> charts.akumulasi,
                     skenario |-> charts.skenario,
                     summary |-> summary.result[1],
                     insights |-> insights.result[1],
                     years |-> years,
                     year_from |-> OrEmpty(l.year_from),
                     year_to |-> OrEmpty(l.year_to)] >>]

\* ------------------------------------------------------------ the server
Init ==
    /\ csv \in CsvFiles
    /\ args = [year_from |-> None, year_to |-> None]
    /\ df = <<>>
    /\ df_view = <<>>
    /\ year_from = None
    /\ year_to = None
    /\ status = "idle"
    /\ context = <<>>
    /\ calls = 0

\* GET /?year_from=..&year_to=..
Index(a_from, a_to) ==
    \E r \in {index(csv, a_from, a_to)} :
        /\ args' = [year_from |-> a_from, year_to |-> a_to]
        /\ df' = r.locals.df
        /\ df_view' = r.locals.df_view
        /\ year_from' = r.locals.year_from
        /\ year_to' = r.locals.year_to
        /\ status' = IF r.raised = "" THEN "ok" ELSE r.raised
        /\ context' = r.context
        /\ UNCHANGED <<csv, calls>>

\* A request with any query string.  index() reads only the file and the
\* query, so a behaviour follows one request from the idle server; a run of
\* several requests is a sequence of such behaviours.
Request ==
    \E a_from, a_to \in QueryArgs(MaxStrLen) :
        status = "idle" /\ Index(a_from, a_to)

Next == Request

Spec == Init /\ [][Next]_vars

\* ------------------------- the filter, build_summary and generate_charts
\* applied as functions to a view.  `calls` counts the applications of the
\* filter; `context` holds the output of the last call on the current view,
\* with n the number of times in a row that call was made.
\* an absent bound, or a year of the data
BoundArgs == {None} \cup {Str(<<c>>) : c \in DecimalChars}

InitView ==
    /\ csv \in CsvFiles
    /\ args \in [year_from : BoundArgs, year_to : BoundArgs]
    /\ df = load_data(csv)
    /\ df_view = copy(df)
    /\ year_from = args.year_from
    /\ year_to = args.year_to
    /\ status = "idle"
    /\ context = <<>>
    /\ calls = 0

\* the range filter applied to the current view, with the request's bounds
ApplyFilter ==
    /\ calls < MaxCalls
    /\ LET l == RangeFilter(df_view, args.year_from, args.year_to)
       IN  /\ df' = l.df
           /\ df_view' = IF l.raised = "" THEN l.df_view ELSE df_view
           /\ year_from' = l.year_from
           /\ year_to' = l.year_to
           /\ status' = IF l.raised = "" THEN "ok" ELSE l.raised
    /\ calls' = calls + 1
    /\ context' = <<>>
    /\ UNCHANGED <<csv, args>>

Repeats(call) ==
    IF context # <<>> /\ context[1].call = call THEN context[1].n ELSE 0

\* generate_charts(df_view) on the current view
CallCharts ==
    /\ Repeats("charts") = 0
    /\ context' = <<[call |-> "charts", n |-> 1, out |-> generate_charts(df_view)]>>
    /\ UNCHANGED <<csv, args, df, df_view, year_from, year_to, status, calls>>

\* build_summary(df_view) on the current view, possibly again
CallSummary ==
    /\ Repeats("summary") < MaxCalls
    /\ context' = <<[call |-> "summary", n |-> Repeats("summary") + 1,
                     out |-> build_summary(df_view)]>>
    /\ UNCHANGED <<csv, args, df, df_view, year_from, year_to, status, calls>>

NextView == ApplyFilter \/ CallCharts \/ CallSummary

SpecView == InitView /\ [][NextView]_vars


\* ============================================================ properties
Handled == status \notin {"idle", "ValueError"}

Rows(frame) == {frame[i] : i \in DOMAIN frame}

\* the bound a query parameter stands for: a string of decimal digits
IsBound(a) ==
    a.some /\ a.val # <<>> /\ \A i \in DOMAIN a.val : a.val[i] \in DecimalChars
BoundValue(a) == DecimalValue(a.val)

\* yearFrom <= year <= yearTo, for each bound that is present
Qualifies(r) ==
    /\ IsBound(args.year_from) => BoundValue(args.year_from) <= r.tahun
    /\ IsBound(args.year_to) => r.tahun <= BoundValue(args.year_to)

Qualifying == {r \in Rows(load_data(csv)) : Qualifies(r)}

\* the position of the row of that period in a frame
PosOf(frame, r) == CHOOSE i \in DOMAIN frame : frame[i].tanggal = r.tanggal

Rendered == status = "ok" /\ Len(context) = 1

\* C1: when applying the bounds leaves no rows, the view handed on is the
\* whole dataset, rows and order, both bounds are reported back as the empty
\* "no filter" value, and the request does not fail because of it.
C1_EmptyFilterFallsBack ==
    (Handled /\ Qualifying = {}) =>
        /\ df_view = load_data(csv)
        /\ year_from = Str(<<>>) /\ year_to = Str(<<>>)
        /\ csv # <<>> =>
             /\ Rendered
             /\ context[1].year_from = <<>> /\ context[1].year_to = <<>>
             /\ context[1].summary = build_summary(load_data(csv)).result[1]
             /\ context[1].insights = build_insights(load_data(csv)).result[1]
             /\ context[1].tren = generate_charts(load_data(csv)).tren
             /\ context[1].table = to_html(tail(load_data(csv), TABLE_ROWS))

C1_Witness ==
    /\ Rendered /\ Qualifying = {} /\ Len(df_view) = 3
    /\ IsBound(args.year_from) /\ IsBound(args.year_to)

\* C2: when at least one row qualifies, the view holds exactly the rows with
\* yearFrom <= year <= yearTo (each bound that is present, both ends
\* inclusive), once each, in the order they have in the dataset.
C2_ViewIsInclusiveRange ==
    (Handled /\ Qualifying # {}) =>
        /\ Rows(df_view) = Qualifying
        /\ Cardinality(Rows(df_view)) = Len(df_view)
        /\ \A i, j \in DOMAIN df_view :
              i < j => PosOf(df, df_view[i]) < PosOf(df, df_view[j])

C2_Witness ==
    /\ Rendered /\ IsBound(args.year_from) /\ IsBound(args.year_to)
    /\ Len(df_view) = 2 /\ Len(df) = 3
    /\ \E r \in Rows(df_view) : r.tahun = BoundValue(args.year_to)

\* C3 (as claimed): a parameter that parses as an integer is applied as the
\* bound, any other value is no bound, and no value makes the request fail.
IntendedBound(a) == a.some /\ PyIntOk(a.val)
IntendedQualifies(r) ==
    /\ IntendedBound(args.year_from) => int(args.year_from.val).value <= r.tahun
    /\ IntendedBound(args.year_to) => r.tahun <= int(args.year_to.val).value
IntendedView ==
    LET kept == SelectSeq(load_data(csv), IntendedQualifies)
    IN  IF kept = <<>> THEN load_data(csv) ELSE kept

C3_IntegerParseableBounds ==
    status # "idle" =>
        /\ status # "ValueError"
        /\ df_view = IntendedView

\* C4: the total build_summary returns is the sum of jumlah_sampah over the
\* rows of the view, each once; a call leaves the view as it was, and a call
\* made again on the same view returns the same summary.
RECURSIVE SumOver(_, _)
SumOver(frame, positions) ==
    IF positions = {} THEN 0
    ELSE LET i == CHOOSE k \in positions : TRUE
         IN  frame[i].jumlah_sampah + SumOver(frame, positions \ {i})

C4_TotalIsSumOfView ==
    [][ Repeats("summary")' > 0 =>
          /\ df_view' = df_view /\ df' = df
          /\ df_view # <<>> =>
                /\ context'[1].out.raised = ""
                /\ context'[1].out.result[1].total_sampah_value
                      = SumOver(df_view, DOMAIN df_view)
          /\ Repeats("summary") > 0 => context'[1].out = context[1].out ]_vars

C4_Witness ==
    /\ Repeats("summary") = 2 /\ calls >= 1
    /\ Len(df_view) = 2 /\ Len(csv) = 3
    /\ context[1].out.result[1].total_sampah_value
          = df_view[1].jumlah_sampah + df_view[2].jumlah_sampah
    /\ df_view[1].jumlah_sampah # df_view[2].jumlah_sampah

\* C5: every "last" value comes from the row of the view with the greatest
\* period: sisa_akhir, akumulasi_akhir, and the two scenario values whose
\* difference the third insight reports.
Latest(frame) ==
    CHOOSE r \in Rows(frame) : \A q \in Rows(frame) : q.tanggal <= r.tanggal

C5_LastValuesFromLatestRow ==
    Rendered =>
        /\ context[1].summary.sisa_akhir_value = Latest(df_view).sisa_sampah
        /\ context[1].summary.akumulasi_akhir_value = Latest(df_view).akumulasi
        /\ context[1].insights[3].ton =
              Latest(df_view).skn_BAU - Latest(df_view).skn_80

C5_Witness ==
    /\ Rendered /\ Len(df_view) = 2 /\ Len(csv) = 3
    /\ Latest(df_view).idx = 0
    /\ Latest(df_view).tanggal < Latest(df).tanggal

\* C6: the peak row has the greatest jumlah_sampah of the view and the lowest
\* row the least; among rows that tie, the one of the earliest period is
\* selected.
InsightRow(frame, insight) ==
    CHOOSE r \in Rows(frame) :
        Title(r.bulan) = insight.bulan /\ r.tahun = insight.tahun

C6_PeakAndLowest ==
    Rendered =>
        LET peak == InsightRow(df_view, context[1].insights[1])
            low == InsightRow(df_view, context[1].insights[2])
        IN  /\ context[1].insights[1].ton = peak.jumlah_sampah
            /\ context[1].insights[2].ton = low.jumlah_sampah
            /\ \A r \in Rows(df_view) :
                  /\ r.jumlah_sampah <= peak.jumlah_sampah
                  /\ r.jumlah_sampah = peak.jumlah_sampah => peak.tanggal <= r.tanggal
                  /\ r.jumlah_sampah >= low.jumlah_sampah
                  /\ r.jumlah_sampah = low.jumlah_sampah => low.tanggal <= r.tanggal

C6_Witness ==
    /\ Rendered /\ Len(df_view) = 3
    /\ \E r, q \in Rows(df_view) :
          /\ r.jumlah_sampah = 7 /\ q.jumlah_sampah = 7
          /\ r.tanggal < q.tanggal /\ r.idx > q.idx
          /\ context[1].insights[1].tahun = r.tahun
          /\ context[1].insights[1].bulan = Title(r.bulan)

\* C7: for every view, the empty one included, each of the five series has
\* one point per row of the view, on the view's period axis in chronological
\* order, carrying that row's own value.
SeriesOf(frame, trace, col) ==
    /\ Len(trace.x) = Len(frame) /\ Len(trace.y) = Len(frame)
    /\ \A i \in DOMAIN frame :
          trace.x[i] = frame[i].tanggal /\ trace.y[i] = frame[i][col]
    /\ \A i, j \in DOMAIN trace.x : i < j => trace.x[i] < trace.x[j]

C7_SeriesFollowView ==
    Repeats("charts") > 0 =>
        LET charts == context[1].out
        IN  /\ Len(charts.tren.div) = 1
            /\ Len(charts.akumulasi.div) = 1
            /\ Len(charts.skenario.div) = 3
            /\ SeriesOf(df_view, charts.tren.div[1], "jumlah_sampah")
            /\ SeriesOf(df_view, charts.akumulasi.div[1], "akumulasi")
            /\ SeriesOf(df_view, charts.skenario.div[1], "skn_BAU")
            /\ SeriesOf(df_view, charts.skenario.div[2], "skn_70")
            /\ SeriesOf(df_view, charts.skenario.div[3], "skn_80")

C7_Witness ==
    /\ Repeats("charts") > 0 /\ calls >= 1
    /\ Len(df_view) = 2 /\ Len(csv) = 3
    /\ df_view[1].idx > df_view[2].idx

C7_WitnessEmpty ==
    /\ Repeats("charts") > 0 /\ df_view = <<>>
    /\ context[1].out.tren.div[1].x = <<>>

\* C8: the view that reaches build_summary is empty only when the loaded
\* dataset is empty, and then build_summary fails and nothing is rendered.
C8_EmptyViewOnlyFromEmptyData ==
    Handled =>
        /\ df_view = <<>> => csv = <<>>
        /\ df_view = <<>> => (status = "IndexError" /\ context = <<>>)
        /\ df_view # <<>> => Rendered

C8_Witness ==
    status = "IndexError" /\ csv = <<>> /\ IsBound(args.year_from)

C8_WitnessFallback ==
    Rendered /\ Qualifying = {} /\ df_view # <<>>

\* C9: filtering the view the filter produced, with the same bounds, gives
\* the same view again, and a call of the filter leaves its input dataset as
\* it was.
C9_FilterIdempotentNonMutating ==
    [][ calls' > calls =>
          /\ df' = df_view
          /\ calls >= 1 => df_view' = df_view ]_vars

C9_Witness ==
    /\ calls = 2 /\ status = "ok"
    /\ Len(df_view) = 2 /\ Len(csv) = 3
    /\ IsBound(args.year_from) /\ IsBound(args.year_to)

\* C10 (as claimed): a bound reported back to the template is the empty value
\* or the text of a bound that was applied to the displayed view.
ReportedOk(reported, a) ==
    \/ reported = <<>>
    \/ /\ IsBound(a) /\ reported = a.val
       /\ Rows(df_view) = Qualifying

C10_ReportedBoundsWereApplied ==
    Rendered =>
        /\ ReportedOk(context[1].year_from, args.year_from)
        /\ ReportedOk(context[1].year_to, args.year_to)

====
